---- MODULE Spec2Model ----
(***************************************************************************)
(* Model of the Lynx governance agent (src/src/agent/lynx-governance-      *)
(* agent.ts) and of its tools: the tally (src/src/tools/tally_vote.ts),    *)
(* the vote parser and the contract update (src/src/tools/                 *)
(* parse_hcs2_vote.ts) and the snapshot hash (src/unnamed/part_002).       *)
(*                                                                         *)
(* The agent runs on the JavaScript event loop: the subscription calls the *)
(* async message callback once per topic message, in log order, and does   *)
(* not wait for the promise it returns.  A callback therefore runs         *)
(* atomically from one `await` of an external call (agentExecutor.invoke)  *)
(* to the next, and callbacks of different messages interleave at those    *)
(* awaits.  One action below is one such atomic stretch of code.           *)
(***************************************************************************)
EXTENDS Integers, Sequences, FiniteSets, TLC

(***************************************************************************)
(* Bounds of the model.                                                    *)
(***************************************************************************)
MaxMsgs == 3

QUORUM_THRESHOLD == 1000

Tasks == 1..MaxMsgs

Voters == {"0.0.1", "0.0.2"}

Powers == {0, 500, 1000}

(* A topic message: a well-formed vote of the given voter and power, or a  *)
(* payload that parse_hcs2_vote rejects.                                   *)
NoMsg == [valid |-> FALSE, voterAccountId |-> "", votingPower |-> 0]

Messages ==
    [valid : {TRUE}, voterAccountId : Voters, votingPower : Powers] \cup {NoMsg}

VARIABLES
    isRunning,            \* LynxGovernanceAgent.isRunning
    collectedVotes,       \* LynxGovernanceAgent.collectedVotes
    currentVotingPower,   \* LynxGovernanceAgent.currentVotingPower
    delivered,            \* number of messages the subscription has delivered
    msg,                  \* msg[t]: the message handed to callback t
    pc,                   \* pc[t]: the await at which callback t is suspended
    upd,                  \* upd[t]: outcome of the contract update of t's flow
    swallowed,            \* swallowed[t]: t's last helper logged an error
    log,                  \* history: the votes applied and the resets, in order
    tallyInput,           \* the votes array handed to TallyVoteTool._call
    tallyOutput,          \* the value TallyVoteTool._call returned, if it has
    toolInput,            \* the input handed to one of the other tools
    toolOutput            \* what that tool did and returned, if it has

agentVars == <<isRunning, collectedVotes, currentVotingPower, delivered, msg,
               pc, upd, swallowed, log>>

tallyVars == <<tallyInput, tallyOutput>>

toolVars == <<toolInput, toolOutput>>

vars == <<agentVars, tallyVars, toolVars>>

(***************************************************************************)
(* Pure helpers.                                                           *)
(***************************************************************************)
RECURSIVE SumPower(_)
SumPower(votes) ==
    IF votes = <<>> THEN 0
    ELSE votes[1].votingPower + SumPower(Tail(votes))

(* Array.prototype.findIndex on voterAccountId: the first matching index   *)
(* (1-based), 0 when there is none (JavaScript's -1).                      *)
findIndex(votes, voter) ==
    IF \E i \in 1..Len(votes) : votes[i].voterAccountId = voter
    THEN CHOOSE i \in 1..Len(votes) :
            /\ votes[i].voterAccountId = voter
            /\ \A j \in 1..(i - 1) : votes[j].voterAccountId # voter
    ELSE 0

(* addVoteToState without the subtraction of the replaced vote's power.    *)
addVoteToState_noSubtract(votes, power, vote) ==
    LET existingIndex == findIndex(votes, vote.voterAccountId) IN
    IF existingIndex >= 1
    THEN [collectedVotes |-> [votes EXCEPT ![existingIndex] = vote],
          currentVotingPower |-> power + vote.votingPower]
    ELSE [collectedVotes |-> Append(votes, vote),
          currentVotingPower |-> power + vote.votingPower]

(* addVoteToState that always pushes, never replaces.                      *)
addVoteToState_alwaysPush(votes, power, vote) ==
    [collectedVotes |-> Append(votes, vote),
     currentVotingPower |-> power + vote.votingPower]

addVoteToState(votes, power, vote) ==
    LET existingIndex == findIndex(votes, vote.voterAccountId) IN
    IF existingIndex >= 1
    THEN [collectedVotes |-> [votes EXCEPT ![existingIndex] = vote],
          currentVotingPower |->
              (power - votes[existingIndex].votingPower) + vote.votingPower]
    ELSE [collectedVotes |-> Append(votes, vote),
          currentVotingPower |-> power + vote.votingPower]

(* resetGovernanceState that zeroes the power but keeps the votes.         *)
resetGovernanceState_keepVotes(votes, power) ==
    [collectedVotes |-> votes, currentVotingPower |-> 0]

(* resetGovernanceState that clears the votes but keeps the running power. *)
resetGovernanceState_keepPower(votes, power) ==
    [collectedVotes |-> <<>>, currentVotingPower |-> power]

resetGovernanceState(votes, power) ==
    [collectedVotes |-> <<>>, currentVotingPower |-> 0]

(* The quorum test against half the threshold.                             *)
quorumReached_halfThreshold(power) == power * 2 >= QUORUM_THRESHOLD

(* The quorum test with a strict comparison.                               *)
quorumReached_strict(power) == power > QUORUM_THRESHOLD

(* The quorum test of processTopicMessage.                                 *)
quorumReached(power) == power >= QUORUM_THRESHOLD

(* The vote object parseVoteMessage returns for the message of callback t. *)
(* `seq` is the position of the message in the topic: it stands for the    *)
(* identity of the message the vote object was parsed from.                *)
VoteOf(t) ==
    [voterAccountId |-> msg[t].voterAccountId,
     votingPower |-> msg[t].votingPower,
     seq |-> t]

NoVote == [voterAccountId |-> "", votingPower |-> 0, seq |-> 0]

(* History entries.  A "vote" entry: callback t ran addVoteToState with    *)
(* `vote`, and `flow` tells whether it went on to executeGovernanceFlow.   *)
(* A "reset" entry: the flow of callback t ran resetGovernanceState, and    *)
(* `upd` is the outcome of that flow's contract update.                    *)
VoteEntry(t, vote, flow) ==
    [op |-> "vote", t |-> t, vote |-> vote, flow |-> flow, upd |-> "none"]

ResetEntry(t, outcome) ==
    [op |-> "reset", t |-> t, vote |-> NoVote, flow |-> FALSE, upd |-> outcome]

(* A callback that has returned keeps nothing: its locals are gone.        *)
Return(t) ==
    /\ pc' = [pc EXCEPT ![t] = "done"]
    /\ msg' = [msg EXCEPT ![t] = NoMsg]
    /\ upd' = [upd EXCEPT ![t] = "none"]
    /\ swallowed' = [swallowed EXCEPT ![t] = FALSE]

InFlow == {"quorumAlert", "tally", "update", "updatedAlert", "snapshot", "balancer"}

(* The output of a tool before its _call has returned.                     *)
NoResult == [called |-> FALSE]

(* toolInput when no tool of the tool specifications is under study.       *)
NoInput == <<>>

(***************************************************************************)
(* Initial state: a constructed, started agent with no message delivered.  *)
(***************************************************************************)
Init ==
    /\ isRunning = TRUE
    /\ collectedVotes = <<>>
    /\ currentVotingPower = 0
    /\ delivered = 0
    /\ msg = [t \in Tasks |-> NoMsg]
    /\ pc = [t \in Tasks |-> "idle"]
    /\ upd = [t \in Tasks |-> "none"]
    /\ swallowed = [t \in Tasks |-> FALSE]
    /\ log = <<>>
    /\ tallyInput = <<>>
    /\ tallyOutput = NoResult
    /\ toolInput = NoInput
    /\ toolOutput = NoResult

(***************************************************************************)
(* The subscription delivers the next message: the callback runs up to the *)
(* await of parseVoteMessage's agentExecutor.invoke.                       *)
(***************************************************************************)
Deliver ==
    /\ delivered < MaxMsgs
    /\ isRunning
    /\ \E m \in Messages :
        /\ delivered' = delivered + 1
        /\ msg' = [msg EXCEPT ![delivered + 1] = m]
        /\ pc' = [pc EXCEPT ![delivered + 1] = "parse"]
    /\ UNCHANGED <<isRunning, collectedVotes, currentVotingPower, upd,
                   swallowed, log, tallyVars, toolVars>>

(* A callback without the isRunning test: the message is handed on to      *)
(* processTopicMessage.                                                    *)
DeliverStopped_parses ==
    /\ delivered < MaxMsgs
    /\ ~isRunning
    /\ \E m \in Messages :
        /\ delivered' = delivered + 1
        /\ msg' = [msg EXCEPT ![delivered + 1] = m]
        /\ pc' = [pc EXCEPT ![delivered + 1] = "parse"]
    /\ UNCHANGED <<isRunning, collectedVotes, currentVotingPower, upd,
                   swallowed, log, tallyVars, toolVars>>

(* A message delivered after stop(): the callback returns at once.         *)
DeliverStopped ==
    /\ delivered < MaxMsgs
    /\ ~isRunning
    /\ delivered' = delivered + 1
    /\ pc' = [pc EXCEPT ![delivered + 1] = "ignored"]
    /\ UNCHANGED <<isRunning, collectedVotes, currentVotingPower, msg, upd,
                   swallowed, log, tallyVars, toolVars>>

Stop ==
    /\ isRunning
    /\ isRunning' = FALSE
    /\ UNCHANGED <<collectedVotes, currentVotingPower, delivered, msg, pc,
                   upd, swallowed, log, tallyVars, toolVars>>

(***************************************************************************)
(* parseVoteMessage returned null: the payload was rejected, or the        *)
(* invoke threw or its output held no vote.  processTopicMessage returns.  *)
(***************************************************************************)
(* A rejected message that is counted as a vote all the same.              *)
ParseFails_appliesVote(t) ==
    /\ pc[t] = "parse"
    /\ LET r == addVoteToState(collectedVotes, currentVotingPower, VoteOf(t))
       IN  /\ collectedVotes' = r.collectedVotes
           /\ currentVotingPower' = r.currentVotingPower
    /\ Return(t)
    /\ UNCHANGED <<isRunning, delivered, log, tallyVars, toolVars>>

(* A rejected message that ends the listening.                             *)
ParseFails_stopsListening(t) ==
    /\ pc[t] = "parse"
    /\ isRunning' = FALSE
    /\ Return(t)
    /\ UNCHANGED <<collectedVotes, currentVotingPower, delivered, log,
                   tallyVars, toolVars>>

ParseFails(t) ==
    /\ pc[t] = "parse"
    /\ Return(t)
    /\ UNCHANGED <<isRunning, collectedVotes, currentVotingPower, delivered,
                   log, tallyVars, toolVars>>

(* A callback that acknowledges every applied vote with "Vote Confirmed"   *)
(* and never starts the flow.                                              *)
ParseReturns_alwaysConfirms(t) ==
    /\ pc[t] = "parse"
    /\ msg[t].valid
    /\ LET r == addVoteToState(collectedVotes, currentVotingPower, VoteOf(t))
       IN
        /\ collectedVotes' = r.collectedVotes
        /\ currentVotingPower' = r.currentVotingPower
        /\ log' = Append(log, VoteEntry(t, VoteOf(t), FALSE))
        /\ pc' = [pc EXCEPT ![t] = "confirm"]
    /\ UNCHANGED <<isRunning, delivered, msg, upd, swallowed, tallyVars,
                   toolVars>>

(***************************************************************************)
(* parseVoteMessage returned a vote: addVoteToState, then the quorum test, *)
(* then up to the first await of executeGovernanceFlow (the "Quorum        *)
(* Reached" alert) or to the await of the "Vote Confirmed" alert.          *)
(***************************************************************************)
ParseReturns(t) ==
    /\ pc[t] = "parse"
    /\ msg[t].valid
    /\ LET r == addVoteToState(collectedVotes, currentVotingPower, VoteOf(t))
           q == quorumReached(r.currentVotingPower)
       IN
        /\ collectedVotes' = r.collectedVotes
        /\ currentVotingPower' = r.currentVotingPower
        /\ log' = Append(log, VoteEntry(t, VoteOf(t), q))
        /\ pc' = [pc EXCEPT ![t] = IF q THEN "quorumAlert" ELSE "confirm"]
    /\ UNCHANGED <<isRunning, delivered, msg, upd, swallowed, tallyVars,
                   toolVars>>

(* The "Vote Confirmed" alert returned (sendDashboardAlert swallows a      *)
(* failure): processTopicMessage returns.                                  *)
ConfirmAlertReturns(t) ==
    /\ pc[t] = "confirm"
    /\ Return(t)
    /\ UNCHANGED <<isRunning, collectedVotes, currentVotingPower, delivered,
                   log, tallyVars, toolVars>>

(***************************************************************************)
(* The helpers that catch their own errors.  `failed` tells whether the    *)
(* awaited invoke threw (or its result could not be read), `next` is the   *)
(* await the caller reaches when the helper returns; the result is the     *)
(* await the callback is at afterwards.                                    *)
(***************************************************************************)
(* sendDashboardAlert without its catch: the error reaches the catch of    *)
(* processTopicMessage and the callback ends.                              *)
sendDashboardAlert_rethrows(failed, next) == IF failed THEN "done" ELSE next

(* sendDashboardAlert: try { invoke } catch { console.error }.             *)
sendDashboardAlert(failed, next) == next

(* createSnapshot without its catch.                                       *)
createSnapshot_rethrows(failed, next) == IF failed THEN "done" ELSE next

(* createSnapshot: try { invoke } catch { console.error }.                 *)
createSnapshot(failed, next) == next

(***************************************************************************)
(* executeGovernanceFlow.                                                  *)
(***************************************************************************)
(* The "Quorum Reached" alert returned; calculateWinningRatios builds its  *)
(* prompt from collectedVotes and awaits the invoke.                       *)
QuorumAlertReturns(t) ==
    /\ pc[t] = "quorumAlert"
    /\ pc' = [pc EXCEPT ![t] = sendDashboardAlert(FALSE, "tally")]
    /\ UNCHANGED <<isRunning, collectedVotes, currentVotingPower, delivered,
                   msg, upd, swallowed, log, tallyVars, toolVars>>

(* The invoke of the "Quorum Reached" alert threw, or its result had no    *)
(* output to read: the catch of sendDashboardAlert logs the error.         *)
QuorumAlertFails(t) ==
    /\ pc[t] = "quorumAlert"
    /\ swallowed' = [swallowed EXCEPT ![t] = TRUE]
    /\ pc' = [pc EXCEPT ![t] = sendDashboardAlert(TRUE, "tally")]
    /\ UNCHANGED <<isRunning, collectedVotes, currentVotingPower, delivered,
                   msg, upd, log, tallyVars, toolVars>>

(* A flow that sends the balancer alert right after the tally.             *)
TallyReturnsRatios_alertsFirst(t) ==
    /\ pc[t] = "tally"
    /\ pc' = [pc EXCEPT ![t] = "balancer"]
    /\ swallowed' = [swallowed EXCEPT ![t] = FALSE]
    /\ UNCHANGED <<isRunning, collectedVotes, currentVotingPower, delivered,
                   msg, upd, log, tallyVars, toolVars>>

(* calculateWinningRatios returned ratios: updateContract awaits invoke.   *)
TallyReturnsRatios(t) ==
    /\ pc[t] = "tally"
    /\ pc' = [pc EXCEPT ![t] = "update"]
    /\ swallowed' = [swallowed EXCEPT ![t] = FALSE]
    /\ UNCHANGED <<isRunning, collectedVotes, currentVotingPower, delivered,
                   msg, upd, log, tallyVars, toolVars>>

(* A flow that resets the state when no ratios came back.                  *)
TallyReturnsNull_resets(t) ==
    /\ pc[t] = "tally"
    /\ collectedVotes' = <<>>
    /\ currentVotingPower' = 0
    /\ Return(t)
    /\ UNCHANGED <<isRunning, delivered, log, tallyVars, toolVars>>

(* calculateWinningRatios returned null: the flow ends without a reset.    *)
TallyReturnsNull(t) ==
    /\ pc[t] = "tally"
    /\ Return(t)
    /\ UNCHANGED <<isRunning, collectedVotes, currentVotingPower, delivered,
                   log, tallyVars, toolVars>>

(* The invoke of updateContract returned and the update_lynx_contract tool *)
(* reported success (ok = TRUE) or a success:false result (ok = FALSE):    *)
(* either way the "Contract Updated" alert is sent.                        *)
UpdateReturns(t) ==
    /\ pc[t] = "update"
    /\ \E ok \in BOOLEAN :
        upd' = [upd EXCEPT ![t] = IF ok THEN "ok" ELSE "toolFailed"]
    /\ pc' = [pc EXCEPT ![t] = "updatedAlert"]
    /\ UNCHANGED <<isRunning, collectedVotes, currentVotingPower, delivered,
                   msg, swallowed, log, tallyVars, toolVars>>

(* The invoke of updateContract threw: the catch logs, and                 *)
(* executeGovernanceFlow goes on to createSnapshot.                        *)
UpdateThrows(t) ==
    /\ pc[t] = "update"
    /\ upd' = [upd EXCEPT ![t] = "threw"]
    /\ pc' = [pc EXCEPT ![t] = "snapshot"]
    /\ UNCHANGED <<isRunning, collectedVotes, currentVotingPower, delivered,
                   msg, swallowed, log, tallyVars, toolVars>>

(* The "Contract Updated" alert returned: createSnapshot awaits invoke.    *)
UpdatedAlertReturns(t) ==
    /\ pc[t] = "updatedAlert"
    /\ pc' = [pc EXCEPT ![t] = sendDashboardAlert(FALSE, "snapshot")]
    /\ UNCHANGED <<isRunning, collectedVotes, currentVotingPower, delivered,
                   msg, upd, swallowed, log, tallyVars, toolVars>>

(* The invoke of createSnapshot returned: sendBalancerAlert awaits invoke. *)
SnapshotReturns(t) ==
    /\ pc[t] = "snapshot"
    /\ swallowed' = [swallowed EXCEPT ![t] = FALSE]
    /\ pc' = [pc EXCEPT ![t] = createSnapshot(FALSE, "balancer")]
    /\ UNCHANGED <<isRunning, collectedVotes, currentVotingPower, delivered,
                   msg, upd, log, tallyVars, toolVars>>

(* The invoke of createSnapshot threw: the catch of createSnapshot logs    *)
(* the error.                                                              *)
SnapshotFails(t) ==
    /\ pc[t] = "snapshot"
    /\ swallowed' = [swallowed EXCEPT ![t] = TRUE]
    /\ pc' = [pc EXCEPT ![t] = createSnapshot(TRUE, "balancer")]
    /\ UNCHANGED <<isRunning, collectedVotes, currentVotingPower, delivered,
                   msg, upd, log, tallyVars, toolVars>>

(* sendBalancerAlert returned (it swallows a failure):                     *)
(* resetGovernanceState, and the flow and the callback end.                *)
BalancerAlertReturns(t) ==
    /\ pc[t] = "balancer"
    /\ LET r == resetGovernanceState(collectedVotes, currentVotingPower) IN
        /\ collectedVotes' = r.collectedVotes
        /\ currentVotingPower' = r.currentVotingPower
    /\ log' = Append(log, ResetEntry(t, upd[t]))
    /\ Return(t)
    /\ UNCHANGED <<isRunning, delivered, tallyVars, toolVars>>

Next ==
    \/ Deliver
    \/ DeliverStopped
    \/ Stop
    \/ \E t \in Tasks : ParseFails(t)
    \/ \E t \in Tasks : ParseReturns(t)
    \/ \E t \in Tasks : ConfirmAlertReturns(t)
    \/ \E t \in Tasks : QuorumAlertReturns(t)
    \/ \E t \in Tasks : TallyReturnsRatios(t)
    \/ \E t \in Tasks : TallyReturnsNull(t)
    \/ \E t \in Tasks : UpdateReturns(t)
    \/ \E t \in Tasks : UpdateThrows(t)
    \/ \E t \in Tasks : UpdatedAlertReturns(t)
    \/ \E t \in Tasks : SnapshotReturns(t)
    \/ \E t \in Tasks : BalancerAlertReturns(t)

Spec == Init /\ [][Next]_vars

(***************************************************************************)
(* A helper that swallows its error leaves the agent in the same state as  *)
(* one that returned normally, so under Spec the "returns" actions stand   *)
(* for both outcomes.  SpecErr tells the outcomes apart for the two        *)
(* helpers executeGovernanceFlow awaits itself, sendDashboardAlert (line   *)
(* 341) and createSnapshot (line 350): `swallowed` keeps the fact that the *)
(* one a callback awaited last logged an error.  The outcome of            *)
(* updateContract is in `upd` under both specifications.                   *)
(***************************************************************************)
NextErr ==
    \/ Next
    \/ \E t \in Tasks : QuorumAlertFails(t)
    \/ \E t \in Tasks : SnapshotFails(t)

SpecErr == Init /\ [][NextErr]_vars

(***************************************************************************)
(* The agent when every external call of a settlement flow returns         *)
(* successfully: the tally returns ratios and the contract update          *)
(* succeeds.  The event loop runs the continuation of a callback once the  *)
(* call it awaits has returned, so a callback that can take a step         *)
(* eventually takes one.  Nothing obliges the topic to deliver a message   *)
(* or the operator to stop the agent.                                      *)
(***************************************************************************)
(* The invoke of updateContract returned and the tool reported success.    *)
UpdateSucceeds(t) == UpdateReturns(t) /\ upd'[t] = "ok"

Continue ==
    \/ \E t \in Tasks : ParseFails(t)
    \/ \E t \in Tasks : ParseReturns(t)
    \/ \E t \in Tasks : ConfirmAlertReturns(t)
    \/ \E t \in Tasks : QuorumAlertReturns(t)
    \/ \E t \in Tasks : TallyReturnsRatios(t)
    \/ \E t \in Tasks : UpdateSucceeds(t)
    \/ \E t \in Tasks : UpdatedAlertReturns(t)
    \/ \E t \in Tasks : SnapshotReturns(t)
    \/ \E t \in Tasks : BalancerAlertReturns(t)

NextLive ==
    \/ Deliver
    \/ DeliverStopped
    \/ Stop
    \/ Continue

SpecLive == Init /\ [][NextLive]_vars /\ WF_vars(Continue)

(***************************************************************************)
(* TallyVoteTool._call (src/src/tools/tally_vote.ts).                      *)
(*                                                                         *)
(* A ratio is a JavaScript number in [0, 100], not necessarily whole.  The *)
(* model counts ratios in halves: newRatio = 81 stands for 40.5 and        *)
(* newRatio = 80 for 40.  A plain object is a sequence of key/value        *)
(* entries in insertion order; a Map likewise.                             *)
(***************************************************************************)
MaxTallyVotes == 3

TallyVoters == {"0.0.1", "0.0.2", "0.0.3"}

TallyPowers == {0, 1}

Timestamps == {1, 2}

(* 30, 40, 30.5 and 40.5 percent.                                          *)
H(r) == [token |-> "HBAR", newRatio |-> r]

W(r) == [token |-> "WBTC", newRatio |-> r]

RatioChangeLists ==
    { <<H(60)>>, <<H(80)>>, <<H(61)>>, <<H(81)>>,
      <<H(80), H(60)>>, <<H(60), W(100)>> }

TallyVotes ==
    [voterAccountId : TallyVoters, votingPower : TallyPowers,
     timestamp : Timestamps, ratioChanges : RatioChangeLists]

TallyInputs == UNION {[1..n -> TallyVotes] : n \in 0..MaxTallyVotes}

(* The number written as a property key is an array index ("40") exactly   *)
(* when it is whole; "40.5" is an ordinary string key.                     *)
IsIndexKey(r) == r % 2 = 0

(* parseInt of the key: "40.5" gives 40.                                   *)
parseInt(r) == (r \div 2) * 2

(* parseInt replaced by a conversion that keeps the fraction.              *)
parseInt_exact(r) == r

KeyIndex(obj, k) ==
    IF \E i \in 1..Len(obj) : obj[i].key = k
    THEN CHOOSE i \in 1..Len(obj) : obj[i].key = k
    ELSE 0

(* AddTo that creates a new entry every time.                              *)
AddTo_alwaysAppend(obj, k, p) == Append(obj, [key |-> k, value |-> p])

(* obj[k] = (obj[k] || 0) + p, creating the key at the end when absent.     *)
AddTo(obj, k, p) ==
    LET i == KeyIndex(obj, k) IN
    IF i = 0 THEN Append(obj, [key |-> k, value |-> p])
    ELSE [obj EXCEPT ![i].value = @ + p]

(* The Map when a later vote of a voter always replaces the stored one.    *)
RECURSIVE VoterMap_lastWins(_, _)
VoterMap_lastWins(votes, map) ==
    IF votes = <<>> THEN map
    ELSE LET vote == Head(votes)
             i == KeyIndex(map, vote.voterAccountId)
         IN  VoterMap_lastWins(Tail(votes),
                 IF i = 0
                 THEN Append(map, [key |-> vote.voterAccountId, value |-> vote])
                 ELSE [map EXCEPT ![i].value = vote])

(* Lines 14-20: the Map of the latest vote per voter.  A vote replaces the *)
(* stored one only when its timestamp is strictly greater.                 *)
RECURSIVE VoterMap(_, _)
VoterMap(votes, map) ==
    IF votes = <<>> THEN map
    ELSE LET vote == Head(votes)
             i == KeyIndex(map, vote.voterAccountId)
         IN  VoterMap(Tail(votes),
                 IF i = 0
                 THEN Append(map, [key |-> vote.voterAccountId, value |-> vote])
                 ELSE IF vote.timestamp > map[i].value.timestamp
                      THEN [map EXCEPT ![i].value = vote]
                      ELSE map)

(* The final votes when the Map step is skipped.                           *)
FinalVotes_noDedup(votes) == votes

(* Line 22: Array.from(voterMap.values()).                                 *)
FinalVotes(votes) ==
    LET map == VoterMap(votes, <<>>) IN [i \in 1..Len(map) |-> map[i].value]

(* Lines 28-36 for one vote: its ratioChanges added to tokenTallies.       *)
RECURSIVE TallyChanges(_, _, _)
TallyChanges(changes, power, tallies) ==
    IF changes = <<>> THEN tallies
    ELSE LET c == Head(changes)
             i == KeyIndex(tallies, c.token)
             withToken == IF i = 0
                          THEN Append(tallies, [key |-> c.token, value |-> <<>>])
                          ELSE tallies
             k == KeyIndex(withToken, c.token)
         IN  TallyChanges(Tail(changes), power,
                 [withToken EXCEPT ![k].value = AddTo(@, c.newRatio, power)])

(* Lines 26-37: tokenTallies over the final votes.                         *)
RECURSIVE TokenTallies(_, _)
TokenTallies(finalVotes, tallies) ==
    IF finalVotes = <<>> THEN tallies
    ELSE TokenTallies(Tail(finalVotes),
             TallyChanges(Head(finalVotes).ratioChanges,
                          Head(finalVotes).votingPower, tallies))

(* The index keys of an object in ascending numeric order.                 *)
RECURSIVE SortedIndexKeys(_)
SortedIndexKeys(keys) ==
    IF keys = {} THEN <<>>
    ELSE LET m == CHOOSE k \in keys : \A o \in keys : k <= o
         IN  <<m>> \o SortedIndexKeys(keys \ {m})

(* Object.entries in plain insertion order.                                *)
ObjectEntries_insertionOrder(obj) == obj

(* Object.entries: index keys first in ascending order, then the other     *)
(* keys in insertion order.                                                *)
ObjectEntries(obj) ==
    LET idx == SortedIndexKeys({obj[i].key : i \in
                   {j \in 1..Len(obj) : IsIndexKey(obj[j].key)}})
    IN  [i \in 1..Len(idx) |-> obj[KeyIndex(obj, idx[i])]]
        \o SelectSeq(obj, LAMBDA e : ~IsIndexKey(e.key))

(* Lines 46-54: the winner loop over the entries of one token.             *)
RECURSIVE PickWinner(_, _, _)
PickWinner(entries, winningRatio, winningPower) ==
    IF entries = <<>>
    THEN [winningRatio |-> winningRatio, winningVotingPower |-> winningPower]
    ELSE IF Head(entries).value > winningPower
         THEN PickWinner(Tail(entries), parseInt(Head(entries).key),
                         Head(entries).value)
         ELSE PickWinner(Tail(entries), winningRatio, winningPower)

(* Lines 10-68: the object _call serialises, tokenResults as a function    *)
(* of the tokens it has an entry for.                                      *)
TallyVoteTool(votes) ==
    LET finalVotes == FinalVotes(votes)
        tallies == TokenTallies(finalVotes, <<>>)
        tokens == {tallies[i].key : i \in 1..Len(tallies)}
    IN  [called |-> TRUE,
         totalVotingPower |-> SumPower(finalVotes),
         voterCount |-> Len(finalVotes),
         tokenResults |->
            [tk \in tokens |->
                LET ratios == tallies[KeyIndex(tallies, tk)].value
                    w == PickWinner(ObjectEntries(ratios), 0, 0)
                IN  [winningRatio |-> w.winningRatio,
                     winningVotingPower |-> w.winningVotingPower,
                     totalOptions |-> Len(ratios)]]]

(* A caller hands one votes array to the tool.                             *)
InitTally ==
    /\ isRunning = TRUE
    /\ collectedVotes = <<>>
    /\ currentVotingPower = 0
    /\ delivered = 0
    /\ msg = [t \in Tasks |-> NoMsg]
    /\ pc = [t \in Tasks |-> "idle"]
    /\ upd = [t \in Tasks |-> "none"]
    /\ swallowed = [t \in Tasks |-> FALSE]
    /\ log = <<>>
    /\ tallyInput \in TallyInputs
    /\ tallyOutput = NoResult
    /\ toolInput = NoInput
    /\ toolOutput = NoResult

TallyCall ==
    /\ ~tallyOutput.called
    /\ tallyOutput' = TallyVoteTool(tallyInput)
    /\ UNCHANGED <<agentVars, tallyInput, toolVars>>

NextTally == TallyCall

SpecTally == InitTally /\ [][NextTally]_vars

(* The tally buckets of one token, as the tool accumulates them.           *)
Buckets(votes, tk) ==
    LET tallies == TokenTallies(FinalVotes(votes), <<>>)
    IN  tallies[KeyIndex(tallies, tk)].value

(***************************************************************************)
(* Derived history.                                                        *)
(***************************************************************************)
VoteEntries == SelectSeq(log, LAMBDA e : e.op = "vote")

FlowStartCount == Cardinality({i \in 1..Len(log) : log[i].flow})

ResetCount == Cardinality({i \in 1..Len(log) : log[i].op = "reset"})

StoredVotes == {collectedVotes[i] : i \in 1..Len(collectedVotes)}

FlowInFlight == \E t \in Tasks : pc[t] \in InFlow

(* The step is the resetGovernanceState of some flow.                      *)
ResetStep == \E t \in Tasks : pc[t] = "balancer" /\ pc'[t] = "done"

(* The step in which callback t runs addVoteToState.                       *)
ApplyStep(t) == pc[t] = "parse" /\ pc'[t] \in {"quorumAlert", "confirm"}

(***************************************************************************)
(* C1: in every reachable state currentVotingPower equals the sum of       *)
(* votingPower over the votes held in collectedVotes.                      *)
(***************************************************************************)
C1_PowerIsSumOfVotes == currentVotingPower = SumPower(collectedVotes)

(* A revote has replaced a stored vote while another voter's vote is held, *)
(* and the running power is positive.                                      *)
C1_Witness ==
    /\ Len(VoteEntries) = 3
    /\ ResetCount = 0
    /\ Len(collectedVotes) = 2
    /\ currentVotingPower > 0

(***************************************************************************)
(* C2: collectedVotes never holds two votes of the same voterAccountId.    *)
(***************************************************************************)
C2_OneVotePerVoter ==
    \A i, j \in 1..Len(collectedVotes) :
        collectedVotes[i].voterAccountId = collectedVotes[j].voterAccountId
            => i = j

(* The same voter has voted twice in one round and one vote is stored.     *)
C2_Witness ==
    /\ Len(VoteEntries) = 2
    /\ ResetCount = 0
    /\ VoteEntries[1].vote.voterAccountId = VoteEntries[2].vote.voterAccountId
    /\ Len(collectedVotes) = 1

(***************************************************************************)
(* C3: when a voter who already has a stored vote of power p1 votes again  *)
(* with power p2, addVoteToState changes currentVotingPower by exactly     *)
(* p2 - p1, the stored vote of that voter becomes the new vote, and the    *)
(* votes of all other voters are unchanged (also when that voter holds all *)
(* of the contributed power).                                              *)
(***************************************************************************)
C3_RevoteNetsOut ==
    [][\A t \in Tasks :
        LET i == findIndex(collectedVotes, msg[t].voterAccountId) IN
        (ApplyStep(t) /\ i >= 1) =>
            /\ currentVotingPower' - currentVotingPower
                  = msg[t].votingPower - collectedVotes[i].votingPower
            /\ Len(collectedVotes') = Len(collectedVotes)
            /\ collectedVotes'[i] = VoteOf(t)
            /\ \A j \in 1..Len(collectedVotes) :
                  j # i => collectedVotes'[j] = collectedVotes[j]]_vars

(* A voter holding all of the contributed power (500 of 500, next to a     *)
(* zero-power vote of the other voter) has revoted with a different power. *)
C3_Witness ==
    /\ Len(VoteEntries) = 3
    /\ ResetCount = 0
    /\ VoteEntries[1].vote.voterAccountId = VoteEntries[3].vote.voterAccountId
    /\ VoteEntries[2].vote.voterAccountId # VoteEntries[1].vote.voterAccountId
    /\ VoteEntries[1].vote.votingPower = 500
    /\ VoteEntries[2].vote.votingPower = 0
    /\ VoteEntries[3].vote.votingPower = 1000
    /\ collectedVotes = <<VoteEntries[3].vote, VoteEntries[2].vote>>
    /\ currentVotingPower = 1000

(***************************************************************************)
(* C4: two votes of distinct voters, each below QUORUM_THRESHOLD and       *)
(* together reaching it, applied in either order with their processing     *)
(* overlapping, start executeGovernanceFlow exactly once.                  *)
(***************************************************************************)
TwoVotesCrossQuorum ==
    /\ Len(VoteEntries) = 2
    /\ VoteEntries[1].vote.voterAccountId # VoteEntries[2].vote.voterAccountId
    /\ VoteEntries[1].vote.votingPower < QUORUM_THRESHOLD
    /\ VoteEntries[2].vote.votingPower < QUORUM_THRESHOLD
    /\ VoteEntries[1].vote.votingPower + VoteEntries[2].vote.votingPower
          >= QUORUM_THRESHOLD

C4_TwoVotesOneFlow == TwoVotesCrossQuorum => FlowStartCount = 1

(* The two votes were applied in the reverse of their delivery order, the  *)
(* flow they started has run to its reset, and a third message is still    *)
(* being parsed.                                                           *)
C4_Witness ==
    /\ TwoVotesCrossQuorum
    /\ VoteEntries[1].vote.seq > VoteEntries[2].vote.seq
    /\ ResetCount = 1
    /\ \E t \in Tasks : pc[t] = "parse"

(***************************************************************************)
(* C5: settlement is started at most once per round: between two starts of *)
(* executeGovernanceFlow there is a resetGovernanceState.                  *)
(***************************************************************************)
C5_OneFlowPerRound ==
    \A i, j \in 1..Len(log) :
        (i < j /\ log[i].flow /\ log[j].flow)
            => \E k \in (i + 1)..(j - 1) : log[k].op = "reset"

(***************************************************************************)
(* C6: when the contract update of a settlement fails, that settlement     *)
(* does not reset the round state.                                         *)
(***************************************************************************)
C6_NoResetAfterFailedUpdate ==
    \A i \in 1..Len(log) : log[i].op = "reset" => log[i].upd = "ok"

(***************************************************************************)
(* C7: a vote applied while a settlement flow is in flight is still held   *)
(* in collectedVotes, and counted in currentVotingPower, right after that  *)
(* flow's resetGovernanceState.                                            *)
(***************************************************************************)
C7_NoVoteLostByReset ==
    [][\A t \in Tasks : \A i, j \in 1..Len(log) :
        (/\ pc[t] = "balancer" /\ pc'[t] = "done"
         /\ log[i].op = "vote" /\ log[i].t = t
         /\ i < j /\ log[j].op = "vote"
         /\ log[j].vote \in StoredVotes)
        => /\ \E k \in 1..Len(collectedVotes') : collectedVotes'[k] = log[j].vote
           /\ currentVotingPower' >= log[j].vote.votingPower]_vars

(***************************************************************************)
(* C8: while a settlement flow is in flight no addVoteToState changes      *)
(* collectedVotes or currentVotingPower.                                   *)
(***************************************************************************)
C8_NoVoteAppliedDuringFlow ==
    [][(FlowInFlight /\ ~ResetStep)
        => UNCHANGED <<collectedVotes, currentVotingPower>>]_vars

(***************************************************************************)
(* C9: votes are applied to the round state in the order the subscription  *)
(* delivered their messages; so of two votes of one voter the later        *)
(* delivered one is the one retained.                                      *)
(***************************************************************************)
C9_AppliedInDeliveryOrder ==
    \A i, j \in 1..Len(VoteEntries) :
        i < j => VoteEntries[i].vote.seq < VoteEntries[j].vote.seq

(***************************************************************************)
(* C10: for every token, when two or more distinct ratio values share the  *)
(* greatest accumulated voting power, the reported winningRatio is the     *)
(* numerically smallest of the tied ratio values.                          *)
(***************************************************************************)
TiedRatios(votes, tk) ==
    LET b == Buckets(votes, tk) IN
    {b[i].key : i \in {j \in 1..Len(b) :
                          \A o \in 1..Len(b) : b[j].value >= b[o].value}}

C10_TieGoesToSmallerRatio ==
    tallyOutput.called =>
        \A tk \in DOMAIN tallyOutput.tokenResults :
            LET tied == TiedRatios(tallyInput, tk) IN
            Cardinality(tied) >= 2 =>
                /\ tallyOutput.tokenResults[tk].winningRatio \in tied
                /\ \A r \in tied :
                      tallyOutput.tokenResults[tk].winningRatio <= r

(***************************************************************************)
(* Reference notions for the tally claims, stated over the input rather    *)
(* than computed the way the tool computes them.                           *)
(***************************************************************************)
Proposes(vote, tk, r) ==
    \E c \in 1..Len(vote.ratioChanges) :
        vote.ratioChanges[c] = [token |-> tk, newRatio |-> r]

(* The ratio values the votes of `fv` propose for token tk.                *)
ProposedRatios(fv, tk) ==
    UNION { {fv[i].ratioChanges[c].newRatio :
                c \in {d \in 1..Len(fv[i].ratioChanges) :
                          fv[i].ratioChanges[d].token = tk}} :
            i \in 1..Len(fv) }

(* The summed votingPower of the votes of `fv` that propose r for tk.      *)
RECURSIVE AccPower(_, _, _)
AccPower(fv, tk, r) ==
    IF fv = <<>> THEN 0
    ELSE (IF Proposes(Head(fv), tk, r) THEN Head(fv).votingPower ELSE 0)
         + AccPower(Tail(fv), tk, r)

(***************************************************************************)
(* C11: for every token of the tally result, winningRatio is a ratio that  *)
(* a deduplicated vote proposed for the token, its accumulated power is    *)
(* at least that of every other proposed ratio, and winningVotingPower is  *)
(* that accumulated power.                                                 *)
(***************************************************************************)
C11_WinnerIsProposedMax ==
    tallyOutput.called =>
        \A tk \in DOMAIN tallyOutput.tokenResults :
            LET fv == FinalVotes(tallyInput)
                res == tallyOutput.tokenResults[tk]
            IN  /\ \E i \in 1..Len(fv) : Proposes(fv[i], tk, res.winningRatio)
                /\ \A r \in ProposedRatios(fv, tk) :
                      AccPower(fv, tk, res.winningRatio) >= AccPower(fv, tk, r)
                /\ res.winningVotingPower
                      = AccPower(fv, tk, res.winningRatio)

(* No two votes of one voter in the input carry the same timestamp.        *)
DistinctTimestamps(votes) ==
    \A i, j \in 1..Len(votes) :
        (i # j /\ votes[i].voterAccountId = votes[j].voterAccountId)
            => votes[i].timestamp # votes[j].timestamp

(* The votes of the input that no vote of the same voter is later than.    *)
LatestVotes(votes) ==
    {votes[i] : i \in {k \in 1..Len(votes) :
        \A j \in 1..Len(votes) :
            votes[j].voterAccountId = votes[k].voterAccountId
                => votes[j].timestamp <= votes[k].timestamp}}

RECURSIVE SetSumPower(_)
SetSumPower(S) ==
    IF S = {} THEN 0
    ELSE LET v == CHOOSE x \in S : TRUE
         IN  v.votingPower + SetSumPower(S \ {v})

(* The summed votingPower of the votes of the set S proposing r for tk.    *)
SetAccPower(S, tk, r) == SetSumPower({v \in S : Proposes(v, tk, r)})

(***************************************************************************)
(* C12: when the votes of each voter in the input have pairwise different  *)
(* timestamps, exactly the vote with the greatest timestamp of each voter  *)
(* contributes to totalVotingPower, voterCount and the per-token buckets,  *)
(* wherever it stands in the input.                                        *)
(***************************************************************************)
C12_LatestVotePerVoterCounts ==
    (tallyOutput.called /\ DistinctTimestamps(tallyInput)) =>
        LET latest == LatestVotes(tallyInput)
            fv == FinalVotes(tallyInput)
        IN  /\ {fv[i] : i \in 1..Len(fv)} = latest
            /\ tallyOutput.voterCount = Cardinality(latest)
            /\ tallyOutput.totalVotingPower = SetSumPower(latest)
            /\ \A tk \in DOMAIN tallyOutput.tokenResults :
                 LET b == Buckets(tallyInput, tk) IN
                 \A k \in 1..Len(b) :
                    b[k].value = SetAccPower(latest, tk, b[k].key)

(* A voter's later vote (timestamp 2, power 1) stands before the same      *)
(* voter's earlier vote (timestamp 1, power 0) in the input, next to a     *)
(* vote of another voter, and the tool has counted only the later one.     *)
C12_Witness ==
    /\ tallyOutput.called
    /\ Len(tallyInput) = 3
    /\ tallyInput[1].voterAccountId = tallyInput[2].voterAccountId
    /\ tallyInput[3].voterAccountId # tallyInput[1].voterAccountId
    /\ tallyInput[1].timestamp = 2 /\ tallyInput[1].votingPower = 1
    /\ tallyInput[2].timestamp = 1 /\ tallyInput[2].votingPower = 0
    /\ tallyInput[3].votingPower = 1
    /\ tallyInput[1].ratioChanges # tallyInput[2].ratioChanges
    /\ tallyOutput.voterCount = 2
    /\ tallyOutput.totalVotingPower = 2

(***************************************************************************)
(* C13: when two votes of one voter carry the same timestamp, and no vote  *)
(* of that voter is later, the one standing later in the input is the one  *)
(* kept and counted.                                                       *)
(***************************************************************************)
C13_TimestampTieKeepsLater ==
    tallyOutput.called =>
        LET fv == FinalVotes(tallyInput) IN
        \A i, j \in 1..Len(tallyInput) :
            (/\ i < j
             /\ tallyInput[i].voterAccountId = tallyInput[j].voterAccountId
             /\ tallyInput[i].timestamp = tallyInput[j].timestamp
             /\ tallyInput[j] \in LatestVotes(tallyInput)
             /\ \A k \in (j + 1)..Len(tallyInput) :
                   tallyInput[k].voterAccountId # tallyInput[j].voterAccountId)
            => \E n \in 1..Len(fv) : fv[n] = tallyInput[j]

RECURSIVE SumValues(_)
SumValues(obj) ==
    IF obj = <<>> THEN 0 ELSE Head(obj).value + SumValues(Tail(obj))

(***************************************************************************)
(* C14: a vote that lists one token more than once adds its votingPower to *)
(* one ratio bucket of that token only; so for every token of the result   *)
(* the accumulated power summed over the token's ratio buckets never       *)
(* exceeds totalVotingPower.                                               *)
(***************************************************************************)
C14_BucketsWithinTotalPower ==
    tallyOutput.called =>
        \A tk \in DOMAIN tallyOutput.tokenResults :
            SumValues(Buckets(tallyInput, tk)) <= tallyOutput.totalVotingPower

(* The tokens the votes of `fv` mention.                                   *)
MentionedTokens(fv) ==
    UNION { {fv[i].ratioChanges[c].token : c \in 1..Len(fv[i].ratioChanges)} :
            i \in 1..Len(fv) }

(***************************************************************************)
(* C15: the tally result has an entry exactly for the tokens that some     *)
(* deduplicated vote mentions in its ratioChanges, and totalOptions of a   *)
(* token is the number of distinct ratio values proposed for it.           *)
(***************************************************************************)
C15_OneEntryPerMentionedToken ==
    tallyOutput.called =>
        LET fv == FinalVotes(tallyInput) IN
        /\ DOMAIN tallyOutput.tokenResults = MentionedTokens(fv)
        /\ \A tk \in DOMAIN tallyOutput.tokenResults :
              tallyOutput.tokenResults[tk].totalOptions
                  = Cardinality(ProposedRatios(fv, tk))

(* Three voters: two propose the same HBAR ratio, one of them also names   *)
(* WBTC, and the third proposes another HBAR ratio: HBAR has two options   *)
(* and WBTC one.                                                           *)
C15_Witness ==
    /\ tallyOutput.called
    /\ Len(tallyInput) = 3
    /\ tallyOutput.voterCount = 3
    /\ DOMAIN tallyOutput.tokenResults = {"HBAR", "WBTC"}
    /\ tallyOutput.tokenResults["HBAR"].totalOptions = 2
    /\ tallyOutput.tokenResults["WBTC"].totalOptions = 1
    /\ tallyInput[1].ratioChanges = <<H(60)>>
    /\ tallyInput[2].ratioChanges = <<H(60), W(100)>>

InputVoters(votes) == {votes[i].voterAccountId : i \in 1..Len(votes)}

(* The vote of voter x that the tool counts: of x's votes with the         *)
(* greatest timestamp, the one standing first in the input.                *)
KeptVote(votes, x) ==
    votes[CHOOSE i \in 1..Len(votes) :
            /\ votes[i].voterAccountId = x
            /\ \A j \in 1..Len(votes) :
                  votes[j].voterAccountId = x =>
                      \/ votes[j].timestamp < votes[i].timestamp
                      \/ (votes[j].timestamp = votes[i].timestamp /\ i <= j)]

(***************************************************************************)
(* C16: totalVotingPower is the sum of votingPower over the deduplicated   *)
(* votes, one per distinct voter, and voterCount is the number of distinct *)
(* voterAccountId values in the input.                                     *)
(***************************************************************************)
C16_TotalsOverDistinctVoters ==
    tallyOutput.called =>
        /\ tallyOutput.voterCount = Cardinality(InputVoters(tallyInput))
        /\ tallyOutput.totalVotingPower =
              SetSumPower({KeptVote(tallyInput, x) :
                              x \in InputVoters(tallyInput)})

(* Three votes of two voters, one voter voting twice with different        *)
(* powers: two voters are counted and the superseded power is left out.    *)
C16_Witness ==
    /\ tallyOutput.called
    /\ Len(tallyInput) = 3
    /\ tallyInput[1].voterAccountId = tallyInput[3].voterAccountId
    /\ tallyInput[2].voterAccountId # tallyInput[1].voterAccountId
    /\ tallyInput[1].votingPower = 1 /\ tallyInput[1].timestamp = 1
    /\ tallyInput[3].votingPower = 0 /\ tallyInput[3].timestamp = 2
    /\ tallyInput[2].votingPower = 1
    /\ tallyOutput.voterCount = 2
    /\ tallyOutput.totalVotingPower = 1

(***************************************************************************)
(* Reference notions for the round claims, recomputed from the history.    *)
(***************************************************************************)
(* The position of the last reset among log[1..k], 0 when there is none.   *)
LastResetUpTo(k) ==
    IF \E i \in 1..k : log[i].op = "reset"
    THEN CHOOSE i \in 1..k :
            /\ log[i].op = "reset"
            /\ \A j \in (i + 1)..k : log[j].op # "reset"
    ELSE 0

(* The votes applied in log[1..k] since the last reset there.              *)
RoundVotesUpTo(k) == {i \in (LastResetUpTo(k) + 1)..k : log[i].op = "vote"}

(* The power of voter x's last vote among those, 0 when x has none.        *)
VoterPowerUpTo(k, x) ==
    LET mine == {i \in RoundVotesUpTo(k) : log[i].vote.voterAccountId = x}
    IN  IF mine = {} THEN 0
        ELSE log[CHOOSE i \in mine : \A j \in mine : j <= i].vote.votingPower

RECURSIVE SumVoterPower(_, _)
SumVoterPower(k, voters) ==
    IF voters = {} THEN 0
    ELSE LET x == CHOOSE v \in voters : TRUE
         IN  VoterPowerUpTo(k, x) + SumVoterPower(k, voters \ {x})

(* The voting power of the round right after log[k], one vote per voter.   *)
PowerAfter(k) == SumVoterPower(k, Voters)

(* After every vote applied so far the power was below the threshold.      *)
StayedBelowQuorum ==
    \A k \in 1..Len(log) :
        log[k].op = "vote" => PowerAfter(k) < QUORUM_THRESHOLD

(***************************************************************************)
(* C17: as long as the voting power stays below QUORUM_THRESHOLD after     *)
(* each applied vote, nothing of a settlement happens: no callback is in   *)
(* executeGovernanceFlow, none has started it, and there was no reset.     *)
(***************************************************************************)
C17_NoSettlementBelowQuorum ==
    StayedBelowQuorum =>
        /\ \A t \in Tasks : pc[t] \notin InFlow
        /\ FlowStartCount = 0
        /\ ResetCount = 0

(* Three votes were applied and fully processed, one of them a revote, the *)
(* raw powers adding up to the threshold but the power per voter staying   *)
(* at 500.                                                                 *)
C17_Witness ==
    /\ StayedBelowQuorum
    /\ Len(VoteEntries) = 3
    /\ \A t \in Tasks : pc[t] = "done"
    /\ VoteEntries[1].vote.votingPower = 500
    /\ VoteEntries[2].vote.voterAccountId = VoteEntries[1].vote.voterAccountId
    /\ VoteEntries[2].vote.votingPower = 0
    /\ VoteEntries[3].vote.voterAccountId # VoteEntries[1].vote.voterAccountId
    /\ VoteEntries[3].vote.votingPower = 500
    /\ currentVotingPower = 500

(***************************************************************************)
(* C18: resetGovernanceState leaves currentVotingPower 0 and               *)
(* collectedVotes empty, and the vote applied next is handled as the first *)
(* vote of a round: it becomes the only stored vote, also when its voter   *)
(* voted in the round before, and currentVotingPower becomes its power.    *)
(***************************************************************************)
C18_FreshRoundAfterReset ==
    [][/\ ResetStep => (collectedVotes' = <<>> /\ currentVotingPower' = 0)
       /\ \A t \in Tasks :
            (ApplyStep(t) /\ log # <<>> /\ log[Len(log)].op = "reset") =>
                /\ collectedVotes' = <<VoteOf(t)>>
                /\ currentVotingPower' = msg[t].votingPower]_vars

(* A voter reached quorum alone, the round was settled and reset, and the  *)
(* same voter's next vote is the only stored vote of the new round.        *)
C18_Witness ==
    /\ Len(log) = 3
    /\ log[1].op = "vote" /\ log[1].flow
    /\ log[2].op = "reset"
    /\ log[3].op = "vote"
    /\ log[3].vote.voterAccountId = log[1].vote.voterAccountId
    /\ log[3].vote.votingPower = 500
    /\ collectedVotes = <<log[3].vote>>
    /\ currentVotingPower = 500

(***************************************************************************)
(* C19: resetGovernanceState runs exactly once per completed round: every  *)
(* reset ends a settlement whose contract update succeeded, and between    *)
(* two resets a new settlement was started.                                *)
(***************************************************************************)
C19_OneResetPerCompletedRound ==
    /\ \A i \in 1..Len(log) : log[i].op = "reset" => log[i].upd = "ok"
    /\ \A i, j \in 1..Len(log) :
          (i < j /\ log[i].op = "reset" /\ log[j].op = "reset")
              => \E k \in (i + 1)..(j - 1) : log[k].flow

(***************************************************************************)
(* C20: createSnapshot runs only in a flow whose contract update           *)
(* succeeded.                                                              *)
(***************************************************************************)
C20_SnapshotOnlyAfterUpdateOk ==
    \A t \in Tasks : pc[t] = "snapshot" => upd[t] = "ok"

(***************************************************************************)
(* C21: the "Contract Updated" alert is sent only in a flow whose contract *)
(* update succeeded: a callback that is waiting for that alert to return    *)
(* has had its update reported as successful by the update_lynx_contract   *)
(* tool.  (The code sends the alert whenever the invoke returns.)          *)
(***************************************************************************)
C21_UpdatedAlertOnlyAfterUpdateOk ==
    \A t \in Tasks : pc[t] = "updatedAlert" => upd[t] = "ok"

(***************************************************************************)
(* C22: at most one settlement call (quorum alert, tally, contract update, *)
(* "Contract Updated" alert, snapshot, balancer alert) is in flight at any *)
(* moment.  (Two callbacks can be inside executeGovernanceFlow at once.)   *)
(***************************************************************************)
C22_OneSettlementCallInFlight ==
    Cardinality({t \in Tasks : pc[t] \in InFlow}) <= 1

(***************************************************************************)
(* C23: a failed "Quorum Reached" alert does not block settlement.  When   *)
(* the alert of a flow fails, the flow goes on to the tally, and from      *)
(* there to the contract update as soon as the tally returns ratios.       *)
(***************************************************************************)
C23_QuorumAlertFailureDoesNotBlock ==
    [][\A t \in Tasks :
        /\ (pc[t] = "quorumAlert" /\ swallowed'[t]) => pc'[t] = "tally"
        /\ (pc[t] = "tally" /\ swallowed[t] /\ pc'[t] # "tally")
              => \/ pc'[t] = "update"
                 \/ pc'[t] = "done" /\ log' = log
                    /\ UNCHANGED <<collectedVotes, currentVotingPower>>]_vars

(* A flow is at its tally although its "Quorum Reached" alert failed.      *)
C23_Witness == \E t \in Tasks : pc[t] = "tally" /\ swallowed[t]

(***************************************************************************)
(* C24: after a successful contract update, a failure of the snapshot or   *)
(* of the balancer alert neither repeats nor undoes the update and does    *)
(* not keep the round from completing.  Whatever the outcome of the        *)
(* snapshot, the flow goes from it to the balancer alert and nowhere else, *)
(* and whatever the outcome of the balancer alert, the flow ends with the  *)
(* reset; the update of that flow stays the one successful update.         *)
(***************************************************************************)
C24_LateFailuresKeepTheUpdate ==
    [][\A t \in Tasks : upd[t] = "ok" =>
        /\ (pc[t] = "snapshot" /\ pc'[t] # "snapshot")
              => pc'[t] = "balancer" /\ upd'[t] = "ok"
        /\ (pc[t] = "balancer" /\ pc'[t] # "balancer")
              => /\ pc'[t] = "done"
                 /\ collectedVotes' = <<>>
                 /\ currentVotingPower' = 0
                 /\ log' = Append(log, ResetEntry(t, "ok"))]_vars

(* A flow is at its balancer alert after a successful update and a failed  *)
(* snapshot.                                                               *)
C24_Witness ==
    \E t \in Tasks : pc[t] = "balancer" /\ upd[t] = "ok" /\ swallowed[t]

(* Callback t has returned without its message having been applied as a    *)
(* vote: parseVoteMessage yielded no vote for it.                          *)
Rejected(t) ==
    pc[t] = "done" /\ \A i \in 1..Len(log) : log[i].t # t

(***************************************************************************)
(* C25: a message that yields no vote leaves the round state untouched and *)
(* triggers nothing.  In the step in which a callback leaves               *)
(* parseVoteMessage without a vote, collectedVotes and currentVotingPower  *)
(* keep their values and the callback returns: it sends no dashboard alert *)
(* and starts no settlement flow.                                          *)
(***************************************************************************)
C25_RejectedMessageChangesNothing ==
    [][\A t \in Tasks :
        (pc[t] = "parse" /\ pc'[t] # "parse" /\ log' = log)
            => /\ UNCHANGED <<collectedVotes, currentVotingPower>>
               /\ pc'[t] = "done"]_vars

(* A message was rejected while an earlier vote was stored, and the vote   *)
(* is still there.                                                         *)
C25_Witness ==
    \E t \in Tasks :
        /\ Rejected(t)
        /\ collectedVotes # <<>>
        /\ \A i \in 1..Len(collectedVotes) : collectedVotes[i].seq < t

(* The round state obtained by replaying the first k entries of the        *)
(* history from an empty round: only applied votes and resets count.       *)
RECURSIVE Replay(_)
Replay(k) ==
    IF k = 0 THEN [collectedVotes |-> <<>>, currentVotingPower |-> 0]
    ELSE LET before == Replay(k - 1) IN
         IF log[k].op = "vote"
         THEN addVoteToState(before.collectedVotes, before.currentVotingPower,
                             log[k].vote)
         ELSE resetGovernanceState(before.collectedVotes,
                                   before.currentVotingPower)

(* The round state and every quorum decision are those of the applied      *)
(* votes and the resets alone.                                             *)
AsIfNeverArrived ==
    /\ collectedVotes = Replay(Len(log)).collectedVotes
    /\ currentVotingPower = Replay(Len(log)).currentVotingPower
    /\ \A k \in 1..Len(log) :
          log[k].op = "vote"
              => log[k].flow = quorumReached(Replay(k).currentVotingPower)

(* A step in which callback t returns from a rejected message touches      *)
(* neither the listening nor any other callback.                           *)
RejectionIsLocal ==
    \A t \in Tasks :
        (pc[t] = "parse" /\ pc'[t] = "done")
            => /\ UNCHANGED <<isRunning, delivered>>
               /\ \A u \in Tasks \ {t} : pc'[u] = pc[u] /\ msg'[u] = msg[u]

(***************************************************************************)
(* C26: ingestion survives bad messages and failed processing.  Rejecting  *)
(* a message leaves the listening and the other callbacks alone; a valid   *)
(* vote that is being parsed can always be applied; and the round state    *)
(* and every quorum decision are what the applied votes and the resets     *)
(* alone give, as if the rejected messages had never arrived.              *)
(***************************************************************************)
C26_IngestionSurvivesBadMessages ==
    /\ [](\A t \in Tasks :
            (pc[t] = "parse" /\ msg[t].valid) => ENABLED ParseReturns(t))
    /\ []AsIfNeverArrived
    /\ [][RejectionIsLocal]_vars

(* A message was rejected, and a vote delivered after it was applied and   *)
(* took the round to quorum.                                               *)
C26_Witness ==
    \E t, u \in Tasks :
        /\ t < u
        /\ Rejected(t)
        /\ \E k \in 1..Len(log) :
              log[k].op = "vote" /\ log[k].t = u /\ log[k].flow
        /\ \E i \in 1..Len(collectedVotes) : collectedVotes[i].seq = u

(***************************************************************************)
(* ParseHCS2VoteTool._call (src/src/tools/parse_hcs2_vote.ts) with         *)
(* MultiRatioVoteSchema (src/unnamed/part_003).                            *)
(*                                                                         *)
(* A raw message is described by what JSON.parse makes of it.  A property  *)
(* of a parsed object is a record with a `kind`: "absent" when the object  *)
(* has no such property, else the JSON type of its value.  Strings that    *)
(* the code only compares are TLA+ strings; the account id, which the code *)
(* matches against a regular expression, is a sequence of characters.      *)
(***************************************************************************)
MaxChanges == 2

Absent == [kind |-> "absent", str |-> "", num |-> 0, chars |-> <<>>]

Str(x) == [kind |-> "string", str |-> x, num |-> 0, chars |-> <<>>]

Num(n) == [kind |-> "number", str |-> "", num |-> n, chars |-> <<>>]

Chars(c) == [kind |-> "string", str |-> "", num |-> 0, chars |-> c]

Digits == {"0", "1", "2", "3", "4", "5", "6", "7", "8", "9"}

(* "0.0.123", "0.0.7", "0.0.", "0.0.12a", "1.0.5", "x0.0.5", "0.0.5 " and *)
(* "0x0.5".                                                                *)
AccountIds ==
    { <<"0", ".", "0", ".", "1", "2", "3">>,
      <<"0", ".", "0", ".", "7">>,
      <<"0", ".", "0", ".">>,
      <<"0", ".", "0", ".", "1", "2", "a">>,
      <<"1", ".", "0", ".", "5">>,
      <<"x", "0", ".", "0", ".", "5">>,
      <<"0", ".", "0", ".", "5", " ">>,
      <<"0", "x", "0", ".", "5">> }

(* One element of ratioChanges.                                            *)
RatioChanges ==
    [token : {Str("HBAR")},
     newRatio : {Num(-1), Num(0), Num(100), Num(101), Absent}]
    \cup {[token |-> Absent, newRatio |-> Num(50)]}

RatioChangeArrays == UNION {[1..n -> RatioChanges] : n \in 0..MaxChanges}

(* Date strings new Date() can and cannot read.                            *)
ValidDateStrings == {"2025-08-03T16:12:53.534Z"}

(* The value JSON.parse makes of the metadata string, when it is an object.*)
VoteData ==
    [isObject : {TRUE},
     type : {Str("MULTI_RATIO_VOTE"), Str("RATIO_VOTE"), Absent},
     ratioChanges :
        [kind : {"array"}, items : RatioChangeArrays]
        \cup {[kind |-> "absent", items |-> <<>>]},
     voterAccountId : {Chars(c) : c \in AccountIds} \cup {Absent, Num(123)},
     votingPower : {Num(-1), Num(0), Num(5), Str("5"), Absent},
     timestamp : {Str("2025-08-03T16:12:53.534Z"), Str("yesterday"), Absent}]

(* The metadata string holds JSON that is no object (null, a number).      *)
NotAnObject ==
    [isObject |-> FALSE, type |-> Absent,
     ratioChanges |-> [kind |-> "absent", items |-> <<>>],
     voterAccountId |-> Absent, votingPower |-> Absent, timestamp |-> Absent]

(* The metadata property of the envelope: absent, a number, a string that  *)
(* is not JSON, or a string that is the JSON of `value`.                   *)
Metadata ==
    {[kind |-> "absent", json |-> FALSE, value |-> NotAnObject],
     [kind |-> "number", json |-> FALSE, value |-> NotAnObject],
     [kind |-> "string", json |-> FALSE, value |-> NotAnObject]}
    \cup [kind : {"string"}, json : {TRUE}, value : VoteData \cup {NotAnObject}]

(* What JSON.parse makes of rawMessage.                                    *)
NotAnEnvelope ==
    [isObject |-> FALSE, p |-> Absent, op |-> Absent, t_id |-> Absent,
     metadata |-> [kind |-> "absent", json |-> FALSE, value |-> NotAnObject]]

Envelopes ==
    [isObject : {TRUE},
     p : {Str("hcs-2"), Str("hcs-1")},
     op : {Str("register"), Absent},
     t_id : {Str("0.0.9000"), Absent},
     metadata : Metadata]

RawMessages ==
    {[json |-> FALSE, value |-> NotAnEnvelope]}
    \cup [json : {TRUE}, value : Envelopes \cup {NotAnEnvelope}]

(* z.string().                                                             *)
IsString(f) == f.kind = "string"

(* z.literal(x).                                                           *)
IsLiteral(f, x) == f.kind = "string" /\ f.str = x

(* HCS2MessageSchema.parse succeeds (lines 5-11; m is optional).           *)
HCS2MessageSchema(v) ==
    /\ v.isObject
    /\ IsLiteral(v.p, "hcs-2")
    /\ IsLiteral(v.op, "register")
    /\ IsString(v.t_id)
    /\ v.metadata.kind = "string"

(* /^0\.0\.\d+$/ read from the left: the four characters "0.0." and then   *)
(* one or more digits up to the end of the string.                         *)
RECURSIVE AllDigits(_)
AllDigits(c) ==
    IF c = <<>> THEN TRUE
    ELSE Head(c) \in Digits /\ AllDigits(Tail(c))

AccountRegex(c) ==
    /\ Len(c) >= 5
    /\ c[1] = "0" /\ c[2] = "." /\ c[3] = "0" /\ c[4] = "."
    /\ AllDigits(SubSeq(c, 5, Len(c)))

(* z.number().min(0).                                                      *)
MinZero(f) == f.kind = "number" /\ f.num >= 0

(* z.object({token: z.string(), newRatio: z.number().min(0).max(100)}).    *)
RatioChangeSchema(c) ==
    /\ IsString(c.token)
    /\ c.newRatio.kind = "number"
    /\ c.newRatio.num >= 0
    /\ c.newRatio.num <= 100

(* z.coerce.date(): new Date(value) must be a valid date; new Date of      *)
(* undefined is not.                                                       *)
CoerceDate(f) == f.kind = "string" /\ f.str \in ValidDateStrings

(* MultiRatioVoteSchema.parse succeeds (part_003 lines 3-14; txId and      *)
(* reason are optional).                                                   *)
MultiRatioVoteSchema(v) ==
    /\ v.isObject
    /\ IsLiteral(v.type, "MULTI_RATIO_VOTE")
    /\ v.ratioChanges.kind = "array"
    /\ \A k \in 1..Len(v.ratioChanges.items) :
          RatioChangeSchema(v.ratioChanges.items[k])
    /\ v.voterAccountId.kind = "string"
    /\ AccountRegex(v.voterAccountId.chars)
    /\ MinZero(v.votingPower)
    /\ CoerceDate(v.timestamp)

(* How a piece of code ends: it returns a result or throws.                *)
Returns(success, error) ==
    [called |-> TRUE, threw |-> FALSE, success |-> success, error |-> error]

Throws(error) ==
    [called |-> TRUE, threw |-> TRUE, success |-> FALSE, error |-> error]

(* Lines 24-64, the body of the outer try.                                 *)
ParseBody(raw) ==
    IF ~raw.json THEN Returns(FALSE, "Invalid JSON in raw message")
    ELSE IF ~HCS2MessageSchema(raw.value) THEN Throws("ZodError")
    ELSE IF ~raw.value.metadata.json
         THEN Returns(FALSE, "Invalid JSON in metadata field")
    ELSE IF ~MultiRatioVoteSchema(raw.value.metadata.value)
         THEN Throws("ZodError")
    ELSE Returns(TRUE, "")

(* _call without the outer catch.                                          *)
ParseHCS2VoteTool_noCatch(raw) == ParseBody(raw)

(* Lines 20-76: the outer catch turns a throw of the body into a           *)
(* success:false result.                                                   *)
ParseHCS2VoteTool(raw) ==
    LET r == ParseBody(raw) IN
    IF r.threw THEN Returns(FALSE, "ValidationError") ELSE r

(* A caller hands one raw message to the tool.                             *)
InitParse ==
    /\ isRunning = TRUE
    /\ collectedVotes = <<>>
    /\ currentVotingPower = 0
    /\ delivered = 0
    /\ msg = [t \in Tasks |-> NoMsg]
    /\ pc = [t \in Tasks |-> "idle"]
    /\ upd = [t \in Tasks |-> "none"]
    /\ swallowed = [t \in Tasks |-> FALSE]
    /\ log = <<>>
    /\ tallyInput = <<>>
    /\ tallyOutput = NoResult
    /\ toolInput \in RawMessages
    /\ toolOutput = NoResult

ParseCall ==
    /\ ~toolOutput.called
    /\ toolOutput' = ParseHCS2VoteTool(toolInput)
    /\ UNCHANGED <<agentVars, tallyVars, toolInput>>

NextParse == ParseCall

SpecParse == InitParse /\ [][NextParse]_vars

(* The vote a raw message carries, when it carries one at all.             *)
CarriesVote(raw) ==
    /\ raw.json
    /\ raw.value.isObject
    /\ raw.value.metadata.kind = "string"
    /\ raw.value.metadata.json
    /\ raw.value.metadata.value.isObject

VoteIn(raw) == raw.value.metadata.value

(* The account id is "0.0." followed by a non-empty run of digits.         *)
HasAccountForm(f) ==
    /\ f.kind = "string"
    /\ \E n \in 1..Len(f.chars) :
          /\ Len(f.chars) = 4 + n
          /\ SubSeq(f.chars, 1, 4) = <<"0", ".", "0", ".">>
          /\ \A k \in 5..(4 + n) : f.chars[k] \in Digits

(* The four conditions of the claim on the vote of a raw message.          *)
MeetsVoteConditions(raw) ==
    /\ CarriesVote(raw)
    /\ VoteIn(raw).type.kind = "string"
    /\ VoteIn(raw).type.str = "MULTI_RATIO_VOTE"
    /\ VoteIn(raw).votingPower.kind = "number"
    /\ VoteIn(raw).votingPower.num >= 0
    /\ VoteIn(raw).ratioChanges.kind = "array"
    /\ \A k \in 1..Len(VoteIn(raw).ratioChanges.items) :
          LET r == VoteIn(raw).ratioChanges.items[k].newRatio
          IN  r.kind = "number" /\ r.num \in 0..100
    /\ HasAccountForm(VoteIn(raw).voterAccountId)

(***************************************************************************)
(* C27: the parse tool returns success:true only for a payload whose vote  *)
(* has type MULTI_RATIO_VOTE, votingPower >= 0, every newRatio in [0,100]  *)
(* and an account id of the form 0.0.<digits>; for every other payload it  *)
(* returns a success:false result, and it never throws.                    *)
(***************************************************************************)
C27_SuccessOnlyForValidVote ==
    toolOutput.called =>
        /\ ~toolOutput.threw
        /\ toolOutput.success => MeetsVoteConditions(toolInput)
        /\ ~MeetsVoteConditions(toolInput) => ~toolOutput.success

(* The tool has accepted a vote of power 0 whose ratios are 0 and 100.     *)
C27_Witness ==
    /\ toolOutput.called
    /\ toolOutput.success
    /\ VoteIn(toolInput).votingPower.num = 0
    /\ \E j, k \in 1..Len(VoteIn(toolInput).ratioChanges.items) :
          /\ VoteIn(toolInput).ratioChanges.items[j].newRatio.num = 0
          /\ VoteIn(toolInput).ratioChanges.items[k].newRatio.num = 100

(***************************************************************************)
(* UpdateLynxContractTool._call (src/src/tools/parse_hcs2_vote.ts, second  *)
(* half).                                                                  *)
(*                                                                         *)
(* The six ratios are JavaScript numbers in [0, 100] (the tool's schema),  *)
(* not necessarily whole.  The model counts them in thousandths of a       *)
(* percent: 50004 stands for 50.004.  The values are multiples of 0.004,   *)
(* so no sum lies at exactly 0.01 from 100, where the rounding of the      *)
(* floating-point sum would decide the comparison.                         *)
(***************************************************************************)
Percent == 1000

RatioValues == {0, 25 * Percent, 50 * Percent, 50 * Percent + 4, 100 * Percent}

UpdateInputs ==
    [hbarRatio : RatioValues, wbtcRatio : RatioValues,
     sauceRatio : RatioValues, usdcRatio : RatioValues,
     jamRatio : RatioValues, headstartRatio : RatioValues]

(* Line 103.                                                               *)
totalRatio(input) ==
    input.hbarRatio + input.wbtcRatio + input.sauceRatio
    + input.usdcRatio + input.jamRatio + input.headstartRatio

Abs(n) == IF n < 0 THEN -n ELSE n

(* Line 104: Math.abs(totalRatio - 100) > 0.01.                            *)
SumCheckFails(input) == Abs(totalRatio(input) - 100 * Percent) * 100 > Percent

(* Lines 111-117: the parameters in the order of the addUint256 calls.     *)
functionParameters(input) ==
    <<input.hbarRatio, input.wbtcRatio, input.sauceRatio,
      input.usdcRatio, input.jamRatio, input.headstartRatio>>

IsWhole(r) == r % Percent = 0

AllWhole(input) ==
    \A k \in 1..6 : IsWhole(functionParameters(input)[k])

(* What the tool did: `submitted` holds the parameters of the transaction  *)
(* it executed, <<>> when it executed none.                                *)
UpdateResult(success, submitted) ==
    [called |-> TRUE, threw |-> FALSE, success |-> success,
     submitted |-> submitted]

(* Lines 98-155.  `encodes` tells whether the SDK accepts the parameters   *)
(* as uint256 (it does for whole numbers; what it does with a fraction is  *)
(* not in this repository), `executes` whether execute and getReceipt      *)
(* return.  Every throw ends in the catch, which returns success:false.    *)
UpdateLynxContractTool(input, encodes, executes) ==
    IF SumCheckFails(input) THEN UpdateResult(FALSE, <<>>)
    ELSE IF ~encodes THEN UpdateResult(FALSE, <<>>)
    ELSE UpdateResult(executes, functionParameters(input))

(* A caller hands one set of six ratios to the tool.                       *)
InitUpdate ==
    /\ isRunning = TRUE
    /\ collectedVotes = <<>>
    /\ currentVotingPower = 0
    /\ delivered = 0
    /\ msg = [t \in Tasks |-> NoMsg]
    /\ pc = [t \in Tasks |-> "idle"]
    /\ upd = [t \in Tasks |-> "none"]
    /\ swallowed = [t \in Tasks |-> FALSE]
    /\ log = <<>>
    /\ tallyInput = <<>>
    /\ tallyOutput = NoResult
    /\ toolInput \in UpdateInputs
    /\ toolOutput = NoResult

UpdateCall ==
    /\ ~toolOutput.called
    /\ \E encodes \in {e \in BOOLEAN : AllWhole(toolInput) => e} :
       \E executes \in BOOLEAN :
          toolOutput' = UpdateLynxContractTool(toolInput, encodes, executes)
    /\ UNCHANGED <<agentVars, tallyVars, toolInput>>

NextUpdate == UpdateCall

SpecUpdate == InitUpdate /\ [][NextUpdate]_vars

(***************************************************************************)
(* C28: the contract update tool never submits the updateRatios            *)
(* transaction when the six ratios do not sum to 100 (it returns           *)
(* success:false and executes no contract call), and a transaction it does *)
(* submit carries the six values in the order HBAR, WBTC, SAUCE, USDC,     *)
(* JAM, HEADSTART.  (The tool's check lets a sum within 0.01 of 100 pass.) *)
(***************************************************************************)
C28_NoSubmitUnlessSumIs100 ==
    toolOutput.called =>
        /\ totalRatio(toolInput) # 100 * Percent
              => ~toolOutput.success /\ toolOutput.submitted = <<>>
        /\ toolOutput.submitted # <<>>
              => toolOutput.submitted =
                    <<toolInput.hbarRatio, toolInput.wbtcRatio,
                      toolInput.sauceRatio, toolInput.usdcRatio,
                      toolInput.jamRatio, toolInput.headstartRatio>>

(* The power the stored vote of a voter contributes, 0 when there is none. *)
StoredPowerOf(voter) ==
    LET k == findIndex(collectedVotes, voter)
    IN  IF k = 0 THEN 0 ELSE collectedVotes[k].votingPower

(***************************************************************************)
(* C29: a vote with votingPower 0 is accepted and stored, leaves           *)
(* currentVotingPower at what it is without that vote (the power less the  *)
(* vote it replaces), and processing it never starts a settlement flow.    *)
(* (The code starts a flow whenever the power is at or above the threshold *)
(* after the vote, whatever the vote added.)                               *)
(***************************************************************************)
C29_ZeroPowerVoteStartsNoFlow ==
    [][\A t \in Tasks :
        (ApplyStep(t) /\ msg[t].votingPower = 0)
            => /\ \E k \in 1..Len(collectedVotes') :
                    collectedVotes'[k] = VoteOf(t)
               /\ currentVotingPower' =
                    currentVotingPower - StoredPowerOf(msg[t].voterAccountId)
               /\ pc'[t] = "confirm"]_vars

(***************************************************************************)
(* The integrity hash of a snapshot: CreateTokenSnapshotTool._call         *)
(* (src/unnamed/part_002 lines 38-40) and sendTestSnapshot                 *)
(* (src/src/utils/send-test-token-ratio-snapshot.ts lines 86-88).          *)
(*                                                                         *)
(* tokenWeights is a plain object: a sequence of key/value entries in      *)
(* insertion order, with distinct keys.  A weight is counted in tenths:    *)
(* 1 stands for 0.1 and 10 for 1.                                          *)
(***************************************************************************)
(* The keys of the model in the order Array.prototype.sort puts strings:   *)
(* by UTF-16 code units.                                                   *)
SnapshotTokens == <<"BTC", "HBAR", "USDC">>

WeightValues == {1, 3, 6, 10}

TokenSet == {SnapshotTokens[k] : k \in 1..Len(SnapshotTokens)}

TokenWeights ==
    {obj \in UNION {[1..n -> [key : TokenSet, value : WeightValues]] :
                       n \in 0..Len(SnapshotTokens)} :
        \A j, k \in 1..Len(obj) : j # k => obj[j].key # obj[k].key}

(* Object.keys(tokenWeights): the keys in insertion order.                 *)
ObjectKeys(obj) == [k \in 1..Len(obj) |-> obj[k].key]

(* The replacer when the keys are not sorted.                              *)
SortedKeys_unsorted(obj) == ObjectKeys(obj)

(* Object.keys(tokenWeights).sort().                                       *)
SortedKeys(obj) ==
    SelectSeq(SnapshotTokens,
              LAMBDA tk : \E k \in 1..Len(obj) : ObjectKeys(obj)[k] = tk)

(* The text JSON.stringify writes for a number.                            *)
NumberToString(v) ==
    IF v % 10 = 0 THEN ToString(v \div 10)
    ELSE ToString(v \div 10) \o "." \o ToString(v % 10)

(* The text of one member: "key":value.                                    *)
Member(obj, key) ==
    "\"" \o key \o "\":" \o NumberToString(obj[KeyIndex(obj, key)].value)

(* JSON.stringify(obj, replacer) with an array replacer: one member for    *)
(* each name of the replacer that is a property of the object, in the      *)
(* order of the replacer.                                                  *)
RECURSIVE Members(_, _)
Members(obj, replacer) ==
    IF replacer = <<>> THEN ""
    ELSE IF KeyIndex(obj, Head(replacer)) = 0
         THEN Members(obj, Tail(replacer))
         ELSE LET rest == Members(obj, Tail(replacer))
              IN  Member(obj, Head(replacer))
                  \o (IF rest = "" THEN "" ELSE "," \o rest)

JSONStringify(obj, replacer) == "{" \o Members(obj, replacer) \o "}"

(* Line 39.                                                                *)
weightsString(tokenWeights) ==
    JSONStringify(tokenWeights, SortedKeys(tokenWeights))

(* Line 40: the digest of the string; equal strings give equal digests,    *)
(* and SHA-256 is taken to give different digests for different strings.   *)
hash(tokenWeights) == [sha256 |-> weightsString(tokenWeights)]

(* A caller computes the hash of two tokenWeights objects.                 *)
InitSnapshot ==
    /\ isRunning = TRUE
    /\ collectedVotes = <<>>
    /\ currentVotingPower = 0
    /\ delivered = 0
    /\ msg = [t \in Tasks |-> NoMsg]
    /\ pc = [t \in Tasks |-> "idle"]
    /\ upd = [t \in Tasks |-> "none"]
    /\ swallowed = [t \in Tasks |-> FALSE]
    /\ log = <<>>
    /\ tallyInput = <<>>
    /\ tallyOutput = NoResult
    /\ toolInput \in [first : TokenWeights, second : TokenWeights]
    /\ toolOutput = NoResult

SnapshotHashCall ==
    /\ ~toolOutput.called
    /\ toolOutput' =
          [called |-> TRUE,
           first |-> [weightsString |-> weightsString(toolInput.first),
                      hash |-> hash(toolInput.first)],
           second |-> [weightsString |-> weightsString(toolInput.second),
                       hash |-> hash(toolInput.second)]]
    /\ UNCHANGED <<agentVars, tallyVars, toolInput>>

NextSnapshot == SnapshotHashCall

SpecSnapshot == InitSnapshot /\ [][NextSnapshot]_vars

(* The token-to-weight mapping of an object, whatever its key order.       *)
Mapping(obj) == {<<obj[k].key, obj[k].value>> : k \in 1..Len(obj)}

(***************************************************************************)
(* C30: the snapshot hash depends only on the token-to-weight mapping.     *)
(* Two objects with the same key/value pairs have the same hash whatever   *)
(* the order of their keys, and two objects whose mappings differ are      *)
(* serialised to different strings.                                        *)
(***************************************************************************)
C30_HashIgnoresKeyOrder ==
    toolOutput.called =>
        /\ Mapping(toolInput.first) = Mapping(toolInput.second)
              => toolOutput.first.hash = toolOutput.second.hash
        /\ Mapping(toolInput.first) # Mapping(toolInput.second)
              => toolOutput.first.weightsString
                    # toolOutput.second.weightsString

(* The hashes of two objects with the same three pairs, inserted in        *)
(* opposite orders, have been computed.                                    *)
C30_Witness ==
    /\ toolOutput.called
    /\ Len(toolInput.first) = Len(SnapshotTokens)
    /\ Mapping(toolInput.first) = Mapping(toolInput.second)
    /\ \A k \in 1..Len(SnapshotTokens) :
          toolInput.first[k] = toolInput.second[Len(SnapshotTokens) + 1 - k]
    /\ toolInput.first[1].value # toolInput.first[2].value

(* The awaits a flow can be at right after the await `step`: the next step *)
(* of executeGovernanceFlow, or the end of the callback where the code     *)
(* allows it (no ratios; after the balancer alert).  The "Contract         *)
(* Updated" alert belongs to the contract update step.                     *)
StepsAfter(step) ==
    CASE step = "quorumAlert"  -> {"tally"}
      [] step = "tally"        -> {"update", "done"}
      [] step = "update"       -> {"updatedAlert", "snapshot"}
      [] step = "updatedAlert" -> {"snapshot"}
      [] step = "snapshot"     -> {"balancer"}
      [] step = "balancer"     -> {"done"}
      [] OTHER                 -> {}

(* Callback t performs resetGovernanceState in this step.                  *)
ResetsBy(t) ==
    /\ Len(log') = Len(log) + 1
    /\ log'[Len(log')].op = "reset"
    /\ log'[Len(log')].t = t

(***************************************************************************)
(* C31: within one settlement flow the steps occur in the fixed order      *)
(* quorum alert, tally, contract update, snapshot, balancer alert, reset,  *)
(* each starting when the one before has returned.  A flow starts at the   *)
(* quorum alert; each step of a flow leads to the next one in that order   *)
(* (or ends the flow where no ratios came back); and a flow resets the     *)
(* state only in the step in which its balancer alert returns.             *)
(***************************************************************************)
C31_FlowStepsInOrder ==
    [][\A t \in Tasks :
        /\ (pc[t] \notin InFlow /\ pc'[t] \in InFlow)
              => pc[t] = "parse" /\ pc'[t] = "quorumAlert"
        /\ (pc[t] \in InFlow /\ pc'[t] # pc[t])
              => pc'[t] \in StepsAfter(pc[t])
        /\ ResetsBy(t) => pc[t] = "balancer" /\ pc'[t] = "done"]_vars

(* A flow whose contract update succeeded has run through all its steps,   *)
(* and another callback is still on its way.                               *)
C31_Witness ==
    \E k \in 1..Len(log) :
        /\ log[k].op = "reset"
        /\ log[k].upd = "ok"
        /\ pc[log[k].t] = "done"
        /\ \E u \in Tasks : pc[u] \in InFlow

(* Callback t builds the prompt of calculateWinningRatios in this step: it *)
(* reads collectedVotes and currentVotingPower as they are right now.      *)
ReadsVotes(t) == pc[t] = "quorumAlert" /\ pc'[t] = "tally"

(***************************************************************************)
(* C32: every contract update is made with ratios tallied from a vote set  *)
(* that meets quorum.  The vote set that calculateWinningRatios reads, and *)
(* from which the ratios passed to updateContract are tallied, is not      *)
(* empty and has a total voting power of at least QUORUM_THRESHOLD.  (The  *)
(* code tests quorum before the "Quorum Reached" alert and reads the votes *)
(* after it.)                                                              *)
(***************************************************************************)
C32_TallyReadsQuorumVoteSet ==
    [][\A t \in Tasks :
        ReadsVotes(t)
            => /\ collectedVotes # <<>>
               /\ SumPower(collectedVotes) >= QUORUM_THRESHOLD]_vars

(* The flow of callback t has just completed a round: its contract update  *)
(* succeeded and its reset, the latest event, has left the state empty.    *)
RoundCompletedBy(t) ==
    /\ log # <<>>
    /\ log[Len(log)] = ResetEntry(t, "ok")
    /\ collectedVotes = <<>>
    /\ currentVotingPower = 0

(***************************************************************************)
(* C33: if quorum is reached and every external call of the settlement     *)
(* flow returns successfully, the round eventually completes: the flow     *)
(* that quorum started goes through the contract update, the snapshot and  *)
(* the balancer alert, and the state is eventually reset to no votes and   *)
(* zero power.                                                             *)
(***************************************************************************)
C33_QuorumLeadsToReset ==
    \A t \in Tasks : (pc[t] = "quorumAlert") ~> RoundCompletedBy(t)

(* A round has just been completed while the agent is still listening and  *)
(* a message is yet to come: the next vote starts a new round.             *)
C33_Witness ==
    /\ \E t \in Tasks : RoundCompletedBy(t)
    /\ isRunning
    /\ delivered < MaxMsgs
    /\ \A t \in Tasks : pc[t] \notin InFlow

(* The flow of callback t has ended where its tally returned no ratios: t  *)
(* started a flow and has returned without a reset.                        *)
EndedWithoutRatios(t) ==
    /\ pc[t] = "done"
    /\ \E k \in 1..Len(log) :
          log[k].op = "vote" /\ log[k].t = t /\ log[k].flow
    /\ \A k \in 1..Len(log) : ~(log[k].op = "reset" /\ log[k].t = t)

(* The vote applied last started a flow that has ended without ratios:     *)
(* the vote processed now is the next one after it.                        *)
AfterFlowWithoutRatios ==
    /\ log # <<>>
    /\ log[Len(log)].op = "vote"
    /\ log[Len(log)].flow
    /\ EndedWithoutRatios(log[Len(log)].t)

(* The step in which the tally of callback t returns no ratios performs no *)
(* reset and no further settlement step, and leaves the round state alone. *)
NoRatiosStopsFlow ==
    \A t \in Tasks :
        (pc[t] = "tally" /\ pc'[t] = "done")
            => UNCHANGED <<collectedVotes, currentVotingPower, log>>

(***************************************************************************)
(* C34 as stated: when the tally yields no ratios the flow stops there     *)
(* with no update, snapshot, balancer alert or reset, the round state      *)
(* keeps its values, and the next processed vote finds the power at or     *)
(* above the threshold and starts the flow again.  (A revote with less     *)
(* power can take the total below the threshold.)                          *)
(***************************************************************************)
C34_NextVoteRestartsFlow ==
    [][/\ NoRatiosStopsFlow
       /\ \A u \in Tasks :
            (ApplyStep(u) /\ AfterFlowWithoutRatios)
                => /\ currentVotingPower >= QUORUM_THRESHOLD
                   /\ pc'[u] = "quorumAlert"]_vars

(***************************************************************************)
(* C34 amended: when the tally yields no ratios the flow stops there with  *)
(* no update, snapshot, balancer alert or reset, and the round state keeps *)
(* its values.  The next processed vote finds the power at or above the    *)
(* threshold; it starts the flow again exactly when the power is still at  *)
(* or above the threshold after it, which is so whenever it does not       *)
(* replace its voter's stored vote by one of less power.                   *)
(***************************************************************************)
C34_NextVoteRestartsFlowUnlessLowered ==
    [][/\ NoRatiosStopsFlow
       /\ \A u \in Tasks :
            (ApplyStep(u) /\ AfterFlowWithoutRatios)
                => /\ currentVotingPower >= QUORUM_THRESHOLD
                   /\ pc'[u] = "quorumAlert"
                         <=> currentVotingPower' >= QUORUM_THRESHOLD
                   /\ msg[u].votingPower >= StoredPowerOf(msg[u].voterAccountId)
                         => pc'[u] = "quorumAlert"]_vars

(* A flow has ended without ratios, its vote is still stored with the      *)
(* power at the threshold, and the next vote is being parsed.              *)
C34_Witness ==
    \E t, u \in Tasks :
        /\ EndedWithoutRatios(t)
        /\ Len(log) = 1
        /\ collectedVotes = <<log[1].vote>>
        /\ currentVotingPower >= QUORUM_THRESHOLD
        /\ pc[u] = "parse"
        /\ msg[u].valid

(* Callback t awaits the "Vote Confirmed" alert it has sent.               *)
ConfirmSent(t) == pc[t] = "confirm"

(* Callback t awaits the "Quorum Reached" alert: its flow has started.     *)
FlowStarted(t) == pc[t] = "quorumAlert"

(***************************************************************************)
(* C35: every applied vote is acknowledged on exactly one path.  The step  *)
(* that applies the vote of callback t sends the "Vote Confirmed" alert    *)
(* when the power after it is below QUORUM_THRESHOLD and starts the flow   *)
(* with the "Quorum Reached" alert otherwise; a callback that confirmed    *)
(* only returns, and neither alert is sent from anywhere else, so no       *)
(* callback has both.                                                      *)
(***************************************************************************)
C35_OneAcknowledgmentPath ==
    [][\A t \in Tasks :
        /\ ApplyStep(t) =>
              IF currentVotingPower' < QUORUM_THRESHOLD
              THEN ConfirmSent(t)' /\ ~FlowStarted(t)'
              ELSE FlowStarted(t)' /\ ~ConfirmSent(t)'
        /\ (pc[t] = "parse" /\ pc'[t] # "parse" /\ ~ApplyStep(t))
              => /\ pc'[t] = "done"
                 /\ UNCHANGED <<collectedVotes, currentVotingPower>>
        /\ (ConfirmSent(t) /\ pc'[t] # pc[t]) => pc'[t] = "done"
        /\ (ConfirmSent(t)' /\ ~ConfirmSent(t)) => pc[t] = "parse"
        /\ (FlowStarted(t)' /\ ~FlowStarted(t)) => pc[t] = "parse"]_vars

(* One callback confirmed a vote below the threshold while another one's   *)
(* vote reached it and started the flow.                                   *)
C35_Witness ==
    \E t, u \in Tasks :
        /\ ConfirmSent(t)
        /\ FlowStarted(u)
        /\ \E k \in 1..Len(log) :
              log[k].op = "vote" /\ log[k].t = t /\ ~log[k].flow
        /\ currentVotingPower >= QUORUM_THRESHOLD

(***************************************************************************)
(* The ratios on their way through one executeGovernanceFlow: from the     *)
(* result of calculateWinningRatios into the prompts of updateContract and *)
(* createSnapshot, and from the arguments the executor calls the           *)
(* create_token_snapshot tool with into the snapshot's token_weights.      *)
(* The arguments of the tool call are chosen by the language model that    *)
(* reads the prompt; the code does not determine them.                     *)
(***************************************************************************)
SettleValues == {40, 60}

SettleRatios ==
    [hbarRatio : SettleValues, wbtcRatio : SettleValues,
     sauceRatio : SettleValues, usdcRatio : SettleValues,
     jamRatio : SettleValues, headstartRatio : SettleValues]

(* No ratios object has been passed yet.                                   *)
NoRatios ==
    [hbarRatio |-> -1, wbtcRatio |-> -1, sauceRatio |-> -1,
     usdcRatio |-> -1, jamRatio |-> -1, headstartRatio |-> -1]

(* CreateTokenSnapshotTool with two token weights exchanged.               *)
tokenWeightsOf_swapped(input) ==
    <<[key |-> "HBAR", value |-> input.hbarRatio],
      [key |-> "WBTC", value |-> input.sauceRatio],
      [key |-> "SAUCE", value |-> input.wbtcRatio],
      [key |-> "USDC", value |-> input.usdcRatio],
      [key |-> "JAM", value |-> input.jamRatio],
      [key |-> "HEADSTART", value |-> input.headstartRatio]>>

(* CreateTokenSnapshotTool._call, lines 29-36: the tokenWeights object,    *)
(* its entries in insertion order.                                         *)
tokenWeightsOf(input) ==
    <<[key |-> "HBAR", value |-> input.hbarRatio],
      [key |-> "WBTC", value |-> input.wbtcRatio],
      [key |-> "SAUCE", value |-> input.sauceRatio],
      [key |-> "USDC", value |-> input.usdcRatio],
      [key |-> "JAM", value |-> input.jamRatio],
      [key |-> "HEADSTART", value |-> input.headstartRatio]>>

(* The flow awaits calculateWinningRatios.                                 *)
InitSettle ==
    /\ isRunning = TRUE
    /\ collectedVotes = <<>>
    /\ currentVotingPower = 0
    /\ delivered = 0
    /\ msg = [t \in Tasks |-> NoMsg]
    /\ pc = [t \in Tasks |-> "idle"]
    /\ upd = [t \in Tasks |-> "none"]
    /\ swallowed = [t \in Tasks |-> FALSE]
    /\ log = <<>>
    /\ tallyInput = <<>>
    /\ tallyOutput = NoResult
    /\ toolInput = [ratios |-> NoRatios]
    /\ toolOutput = [called |-> FALSE, step |-> "tally",
                     updateArg |-> NoRatios, snapshotArg |-> NoRatios,
                     toolArgs |-> NoRatios, tokenWeights |-> <<>>]

(* Lines 343-348: calculateWinningRatios returned an object, the flow      *)
(* calls updateContract with it.                                           *)
SettleTallyReturns ==
    /\ toolOutput.step = "tally"
    /\ \E ratios \in SettleRatios :
        /\ toolInput' = [ratios |-> ratios]
        /\ toolOutput' = [toolOutput EXCEPT !.step = "update",
                                            !.updateArg = ratios]
    /\ UNCHANGED <<agentVars, tallyVars>>

(* Lines 348-351: updateContract returned, the flow calls createSnapshot   *)
(* with the same constant.                                                 *)
SettleUpdateReturns ==
    /\ toolOutput.step = "update"
    /\ toolOutput' = [toolOutput EXCEPT !.step = "snapshot",
                                        !.snapshotArg = toolInput.ratios]
    /\ UNCHANGED <<agentVars, tallyVars, toolInput>>

(* The executor calls create_token_snapshot during the invoke of           *)
(* createSnapshot: the tool builds token_weights from its arguments.       *)
SettleSnapshotToolCall ==
    /\ toolOutput.step = "snapshot"
    /\ ~toolOutput.called
    /\ \E input \in SettleRatios :
        toolOutput' = [toolOutput EXCEPT !.called = TRUE,
                                         !.toolArgs = input,
                                         !.tokenWeights = tokenWeightsOf(input)]
    /\ UNCHANGED <<agentVars, tallyVars, toolInput>>

(* Lines 351-354: createSnapshot returned, with the tool called or not.    *)
SettleSnapshotReturns ==
    /\ toolOutput.step = "snapshot"
    /\ toolOutput' = [toolOutput EXCEPT !.step = "balancer"]
    /\ UNCHANGED <<agentVars, tallyVars, toolInput>>

NextSettle ==
    \/ SettleTallyReturns
    \/ SettleUpdateReturns
    \/ SettleSnapshotToolCall
    \/ SettleSnapshotReturns

SpecSettle == InitSettle /\ [][NextSettle]_vars

(* The weight recorded for a token in a tokenWeights object.               *)
WeightOf(obj, token) ==
    LET k == CHOOSE k \in 1..Len(obj) : obj[k].key = token IN obj[k].value

Reorderings(votes) ==
    {[i \in 1..Len(votes) |-> votes[f[i]]] :
        f \in Permutations(1..Len(votes))}

(* Two tally results report the same figures.                              *)
SameTally(a, b) ==
    /\ a.totalVotingPower = b.totalVotingPower
    /\ a.voterCount = b.voterCount
    /\ DOMAIN a.tokenResults = DOMAIN b.tokenResults
    /\ \A tk \in DOMAIN a.tokenResults :
          a.tokenResults[tk] = b.tokenResults[tk]

(***************************************************************************)
(* C37: the tally does not depend on the order of the input votes.  When   *)
(* no two votes of one voter share a timestamp, every reordering of the    *)
(* input yields the same totalVotingPower, voterCount and, per token, the  *)
(* same winningRatio, winningVotingPower and totalOptions.  (Two ratios    *)
(* with a fraction that tie are decided by which was voted for first.)     *)
(***************************************************************************)
C37_TallyIgnoresVoteOrder ==
    (tallyOutput.called /\ DistinctTimestamps(tallyInput))
        => \A votes \in Reorderings(tallyInput) :
              SameTally(TallyVoteTool(votes), tallyOutput)

(* The subscription delivers a message in this step.                       *)
Delivery == delivered' = delivered + 1

(***************************************************************************)
(* C38: a message delivered after stop() has set isRunning to false is     *)
(* ignored.  Its callback returns at once: the message is not parsed,      *)
(* collectedVotes and currentVotingPower keep their values, no vote is     *)
(* applied, no alert and no flow is started for it, and the callback       *)
(* never takes a further step.                                             *)
(***************************************************************************)
C38_StoppedAgentIgnoresMessages ==
    [][/\ (~isRunning /\ Delivery)
            => /\ pc'[delivered'] = "ignored"
               /\ msg'[delivered'] = NoMsg
               /\ UNCHANGED <<collectedVotes, currentVotingPower, log>>
               /\ \A t \in Tasks \ {delivered'} : pc'[t] = pc[t]
       /\ \A t \in Tasks : pc[t] = "ignored" => pc'[t] = "ignored"]_vars

(* Votes were collected, the agent was stopped, and a message delivered    *)
(* afterwards has been ignored.                                            *)
C38_Witness ==
    /\ ~isRunning
    /\ collectedVotes # <<>>
    /\ \E t \in Tasks : pc[t] = "ignored"

====
